---- MODULE Spec2Model ----
(***************************************************************************)
(* A model of the renter's directory metadata bubble: the bubbleUpdates    *)
(* coordinator (managedBubbleNeeded / managedCompleteBubbleUpdate), the    *)
(* directory metadata calculator (managedCalculateDirectoryMetadata), and  *)
(* the driver (threadedBubbleMetadata / managedBubbleMetadata) running as  *)
(* concurrent goroutines over a small directory tree.                      *)
(*                                                                         *)
(* Floating point healths and redundancies are modelled on an integer      *)
(* scale (only their order and equality matter to the code); timestamps    *)
(* are naturals with 0 the zero time.Time.                                 *)
(***************************************************************************)
EXTENDS Integers, Sequences, FiniteSets, Bags, TLC

VARIABLES
    bubbleUpdates,    \* r.bubbleUpdates: map from siapath to bubbleStatus
    tasks,            \* bag of goroutines running threadedBubbleMetadata
    dirRecord,        \* the .siadir metadata records kept by r.staticDirSet
    fileState,        \* what the siafile of each file reports when probed
    stopped,          \* r.tg has been stopped (StopChan is closed)
    repairNeeded,     \* number of units buffered in r.uploadHeap.repairNeeded
    stuckChunkFound,  \* number of units buffered in r.uploadHeap.stuckChunkFound
    requests,         \* number of bubbles callers outside may still request
    faulted,          \* a calculation or a write-back has failed
    asked,            \* paths whose bubble was requested from outside
    dirty,            \* paths with a bubble request no calculation has started after
    stale,            \* paths whose child record was written and not yet re-read
    calcs,            \* for the observed paths: how their calculations came about
    clock,            \* time.Now()
    call              \* a single call under examination: arguments and result

vars == <<bubbleUpdates, tasks, dirRecord, fileState, stopped, repairNeeded,
          stuckChunkFound, requests, faulted, asked, dirty, stale, calcs,
          clock, call>>

-----------------------------------------------------------------------------
(* Bounds of the model *)

\* Bubbles requested from outside in a run of Spec
MaxRequests == 2

\* Bubbles of the one observed path requested in a run of CoalesceSpec
MaxCoalesced == 3

\* Entries of the directory a single calculation is run on in CalculatorSpec
MaxChildren == 3

-----------------------------------------------------------------------------
(* Constants of the program *)

bubbleError == 0

bubbleInit == 1

bubbleActive == 2

bubblePending == 3

\* siadir.DefaultDirHealth: the health of a directory without unhealthy files
DefaultDirHealth == 0

\* siafile.RemoteRepairDownloadThreshold on the integer health scale
RemoteRepairDownloadThreshold == 2

\* math.MaxFloat64 on the integer redundancy scale
MaxFloat64 == 99

\* the zero time.Time
ZeroTime == 0

\* capacity of the repairNeeded and stuckChunkFound channels
ChanCap == 1

Nil == "nil"

-----------------------------------------------------------------------------
(* SiaPaths: a path is the sequence of its elements, the root is empty *)

RootSiaPath == << >>

IsRoot(siaPath) == siaPath = RootSiaPath

\* siaPath.Dir(): the parent directory (an error on the root)
Dir(siaPath) == SubSeq(siaPath, 1, Len(siaPath) - 1)

\* siaPath.Join(name)
Join(siaPath, name) == Append(siaPath, name)

\* The directories of the tree: /, /a and /a/b
Dirs == { RootSiaPath, <<"a">>, <<"a", "b">> }

\* ioutil.ReadDir of each directory, sorted by name. Each fileinfo has the
\* name split in its base and its extension (filepath.Ext) and IsDir().
ReadDir(siaPath) ==
    CASE siaPath = RootSiaPath ->
            << [base |-> "a", ext |-> "", isDir |-> TRUE],
               [base |-> "notes", ext |-> ".txt", isDir |-> FALSE] >>
      [] siaPath = <<"a">> ->
            << [base |-> "b", ext |-> "", isDir |-> TRUE] >>
      [] siaPath = <<"a", "b">> ->
            << [base |-> "x", ext |-> ".sia", isDir |-> FALSE] >>

SiaFileExtension == ".sia"

\* The siafiles of the tree: /a/b/x
Files == { <<"a", "b", "x">> }

\* The second argument whatever the first
Max_second(a, b) == b

\* math.Max
Max(a, b) == IF a >= b THEN a ELSE b

-----------------------------------------------------------------------------
(* Metadata values *)

\* siadir.Metadata{}
ZeroMetadata ==
    [ AggregateHealth |-> 0, AggregateNumFiles |-> 0, AggregateSize |-> 0,
      Health |-> 0, LastHealthCheckTime |-> ZeroTime, MinRedundancy |-> 0,
      ModTime |-> ZeroTime, NumFiles |-> 0, NumStuckChunks |-> 0,
      NumSubDirs |-> 0, StuckHealth |-> 0 ]

\* siafile.BubbledMetadata{}
ZeroBubbledMetadata ==
    [ Health |-> 0, LastHealthCheckTime |-> ZeroTime, ModTime |-> ZeroTime,
      NumStuckChunks |-> 0, Redundancy |-> 0, Size |-> 0, StuckHealth |-> 0 ]

\* The metadata the calculation starts from
DefaultMetadata(now) ==
    [ AggregateHealth |-> DefaultDirHealth, AggregateNumFiles |-> 0,
      AggregateSize |-> 0, Health |-> DefaultDirHealth,
      LastHealthCheckTime |-> now, MinRedundancy |-> MaxFloat64,
      ModTime |-> ZeroTime, NumFiles |-> 0, NumStuckChunks |-> 0,
      NumSubDirs |-> 0, StuckHealth |-> DefaultDirHealth ]

-----------------------------------------------------------------------------
(* managedCalculateDirectoryMetadata                                       *)
(*                                                                         *)
(* The calculator works on the fileinfos of ReadDir, each resolved with    *)
(* what the calls made for it answer:                                      *)
(*   isSiaFile    filepath.Ext(fi.Name()) == modules.SiaFileExtension      *)
(*   isDir        fi.IsDir()                                               *)
(*   joinErr      siaPath.Join fails                                       *)
(*   probeErr     managedCalculateAndUpdateFileMetadata fails              *)
(*   fileMetadata the BubbledMetadata it returns otherwise                 *)
(*   dirErr       managedDirectoryMetadata fails                           *)
(*   dirMetadata  the siadir.Metadata it returns otherwise                 *)

\* What one fileinfo contributes: the locals of the loop body once the
\* branch for a siafile, a directory or anything else has run.
ChildValues(fi) ==
    IF fi.isSiaFile
    THEN IF fi.joinErr \/ fi.probeErr
         THEN [ branch |-> "continue" ]
         ELSE [ branch |-> "fold",
                fileMetadata |-> fi.fileMetadata,
                aggregateHealth |-> fi.fileMetadata.Health,
                stuckHealth |-> fi.fileMetadata.StuckHealth,
                redundancy |-> fi.fileMetadata.Redundancy,
                numStuckChunks |-> fi.fileMetadata.NumStuckChunks,
                lastHealthCheckTime |-> fi.fileMetadata.LastHealthCheckTime,
                modTime |-> fi.fileMetadata.ModTime,
                numFiles |-> 1,
                aggregateNumFiles |-> 1,
                aggregateSize |-> fi.fileMetadata.Size,
                numSubDirs |-> 0 ]
    ELSE IF fi.isDir
    THEN IF fi.joinErr \/ fi.dirErr
         THEN [ branch |-> "return" ]
         ELSE [ branch |-> "fold",
                fileMetadata |-> ZeroBubbledMetadata,
                aggregateHealth |-> Max(fi.dirMetadata.AggregateHealth,
                                        fi.dirMetadata.Health),
                stuckHealth |-> fi.dirMetadata.StuckHealth,
                redundancy |-> fi.dirMetadata.MinRedundancy,
                numStuckChunks |-> fi.dirMetadata.NumStuckChunks,
                lastHealthCheckTime |-> fi.dirMetadata.LastHealthCheckTime,
                modTime |-> fi.dirMetadata.ModTime,
                numFiles |-> 0,
                aggregateNumFiles |-> fi.dirMetadata.AggregateNumFiles,
                aggregateSize |-> fi.dirMetadata.AggregateSize,
                numSubDirs |-> 1 ]
    ELSE [ branch |-> "continue" ]

\* NumStuckChunks after one child: the code adds numStuckChunks to it twice
\* (once before and once after the LastHealthCheckTime update).
AddStuckChunks(n, numStuckChunks) == (n + numStuckChunks) + numStuckChunks

\* A fold that takes Health from the aggregate health of the child, which a
\* subdirectory has too
FoldChild_healthOfSubDirs(metadata, c) ==
    [ AggregateHealth |->
          IF c.aggregateHealth > metadata.AggregateHealth
          THEN c.aggregateHealth ELSE metadata.AggregateHealth,
      AggregateNumFiles |-> metadata.AggregateNumFiles + c.aggregateNumFiles,
      AggregateSize |-> metadata.AggregateSize + c.aggregateSize,
      Health |->
          IF c.aggregateHealth > metadata.Health
          THEN c.aggregateHealth ELSE metadata.Health,
      LastHealthCheckTime |->
          IF c.lastHealthCheckTime < metadata.LastHealthCheckTime
          THEN c.lastHealthCheckTime ELSE metadata.LastHealthCheckTime,
      MinRedundancy |->
          IF c.redundancy < metadata.MinRedundancy
          THEN c.redundancy ELSE metadata.MinRedundancy,
      ModTime |->
          IF c.modTime > metadata.ModTime
          THEN c.modTime ELSE metadata.ModTime,
      NumFiles |-> metadata.NumFiles + c.numFiles,
      NumStuckChunks |-> (metadata.NumStuckChunks + c.numStuckChunks)
                             + c.numStuckChunks,
      NumSubDirs |-> metadata.NumSubDirs + c.numSubDirs,
      StuckHealth |->
          IF c.stuckHealth > metadata.StuckHealth
          THEN c.stuckHealth ELSE metadata.StuckHealth ]

\* A fold that assigns the health values of the child instead of keeping
\* the worst seen so far
FoldChild_lastWins(metadata, c) ==
    [ AggregateHealth |-> c.aggregateHealth,
      AggregateNumFiles |-> metadata.AggregateNumFiles + c.aggregateNumFiles,
      AggregateSize |-> metadata.AggregateSize + c.aggregateSize,
      Health |-> c.fileMetadata.Health,
      LastHealthCheckTime |->
          IF c.lastHealthCheckTime < metadata.LastHealthCheckTime
          THEN c.lastHealthCheckTime ELSE metadata.LastHealthCheckTime,
      MinRedundancy |->
          IF c.redundancy < metadata.MinRedundancy
          THEN c.redundancy ELSE metadata.MinRedundancy,
      ModTime |->
          IF c.modTime > metadata.ModTime
          THEN c.modTime ELSE metadata.ModTime,
      NumFiles |-> metadata.NumFiles + c.numFiles,
      NumStuckChunks |-> (metadata.NumStuckChunks + c.numStuckChunks)
                             + c.numStuckChunks,
      NumSubDirs |-> metadata.NumSubDirs + c.numSubDirs,
      StuckHealth |-> c.stuckHealth ]

\* The tail of the loop body: fold the child's values into metadata
FoldChild(metadata, c) ==
    [ AggregateHealth |->
          IF c.aggregateHealth > metadata.AggregateHealth
          THEN c.aggregateHealth ELSE metadata.AggregateHealth,
      AggregateNumFiles |-> metadata.AggregateNumFiles + c.aggregateNumFiles,
      AggregateSize |-> metadata.AggregateSize + c.aggregateSize,
      Health |->
          IF c.fileMetadata.Health > metadata.Health
          THEN c.fileMetadata.Health ELSE metadata.Health,
      LastHealthCheckTime |->
          IF c.lastHealthCheckTime < metadata.LastHealthCheckTime
          THEN c.lastHealthCheckTime ELSE metadata.LastHealthCheckTime,
      MinRedundancy |->
          IF c.redundancy < metadata.MinRedundancy
          THEN c.redundancy ELSE metadata.MinRedundancy,
      ModTime |->
          IF c.modTime > metadata.ModTime
          THEN c.modTime ELSE metadata.ModTime,
      NumFiles |-> metadata.NumFiles + c.numFiles,
      NumStuckChunks |-> AddStuckChunks(metadata.NumStuckChunks, c.numStuckChunks),
      NumSubDirs |-> metadata.NumSubDirs + c.numSubDirs,
      StuckHealth |->
          IF c.stuckHealth > metadata.StuckHealth
          THEN c.stuckHealth ELSE metadata.StuckHealth ]

\* What the calculator returns when it finds r.tg.StopChan() closed at the
\* top of an iteration: `return siadir.Metadata{}, err` with err the error
\* of ioutil.ReadDir, which is nil at that point.
ShutdownReturn == [ metadata |-> ZeroMetadata, err |-> Nil, via |-> "shutdown" ]

\* The loop returning an error where the probe of a siafile fails
RECURSIVE IterateDirectory_failOnProbe(_, _, _, _)
IterateDirectory_failOnProbe(fileinfos, i, metadata, stopFrom) ==
    IF i > Len(fileinfos)
    THEN [ metadata |-> metadata, err |-> Nil, via |-> "end" ]
    ELSE IF i >= stopFrom
    THEN ShutdownReturn
    ELSE LET c == ChildValues(fileinfos[i]) IN
         CASE c.branch = "continue" /\ fileinfos[i].isSiaFile ->
                 [ metadata |-> ZeroMetadata, err |-> "probe", via |-> "probe" ]
           [] c.branch = "continue" /\ ~fileinfos[i].isSiaFile ->
                 IterateDirectory_failOnProbe(fileinfos, i + 1, metadata, stopFrom)
           [] c.branch = "return" ->
                 [ metadata |-> ZeroMetadata, err |-> "subdir", via |-> "subdir" ]
           [] OTHER ->
                 IterateDirectory_failOnProbe(fileinfos, i + 1,
                                              FoldChild(metadata, c), stopFrom)

\* The loop going on to the next entry where the metadata of a subdirectory
\* cannot be read
RECURSIVE IterateDirectory_skipFailedDir(_, _, _, _)
IterateDirectory_skipFailedDir(fileinfos, i, metadata, stopFrom) ==
    IF i > Len(fileinfos)
    THEN [ metadata |-> metadata, err |-> Nil, via |-> "end" ]
    ELSE IF i >= stopFrom
    THEN ShutdownReturn
    ELSE LET c == ChildValues(fileinfos[i]) IN
         CASE c.branch \in {"continue", "return"} ->
                 IterateDirectory_skipFailedDir(fileinfos, i + 1, metadata, stopFrom)
           [] OTHER ->
                 IterateDirectory_skipFailedDir(fileinfos, i + 1,
                                                FoldChild(metadata, c), stopFrom)

\* The loop over fileinfos from index i on. stopFrom is the first iteration
\* whose check finds the StopChan closed (Len(fileinfos) + 1: none does).
RECURSIVE IterateDirectory(_, _, _, _)
IterateDirectory(fileinfos, i, metadata, stopFrom) ==
    IF i > Len(fileinfos)
    THEN [ metadata |-> metadata, err |-> Nil, via |-> "end" ]
    ELSE IF i >= stopFrom
    THEN ShutdownReturn
    ELSE LET c == ChildValues(fileinfos[i]) IN
         CASE c.branch = "continue" ->
                 IterateDirectory(fileinfos, i + 1, metadata, stopFrom)
           [] c.branch = "return" ->
                 [ metadata |-> ZeroMetadata, err |-> "subdir", via |-> "subdir" ]
           [] OTHER ->
                 IterateDirectory(fileinfos, i + 1, FoldChild(metadata, c), stopFrom)

\* The sanity checks without the one on ModTime
SanityChecks_keepZeroTime(metadata, now) ==
    [ metadata EXCEPT !.MinRedundancy = IF @ = MaxFloat64 THEN 0 ELSE @ ]

\* The sanity checks after the loop
SanityChecks(metadata, now) ==
    [ metadata EXCEPT
        !.ModTime = IF @ = ZeroTime THEN now ELSE @,
        !.MinRedundancy = IF @ = MaxFloat64 THEN 0 ELSE @ ]

\* The whole calculation: [metadata, err, via], via naming the return
\* statement taken ("readdir", "shutdown", "subdir" or the last one, "end")
managedCalculateDirectoryMetadata(readDirErr, fileinfos, stopFrom, now) ==
    IF readDirErr
    THEN [ metadata |-> ZeroMetadata, err |-> "readdir", via |-> "readdir" ]
    ELSE LET r == IterateDirectory(fileinfos, 1, DefaultMetadata(now), stopFrom) IN
         IF r.via # "end"
         THEN r
         ELSE [ metadata |-> SanityChecks(r.metadata, now), err |-> Nil,
                via |-> "end" ]

-----------------------------------------------------------------------------
(* managedDirectoryMetadata *)

\* The metadata of a record made by r.staticDirSet.NewSiaDir
NewSiaDirMetadata(now) == DefaultMetadata(now)

\* managedDirectoryMetadata making the missing record of every directory,
\* an empty one included
managedDirectoryMetadata_materialize(records, siaPath, statErr, isDir, numFileInfos, now) ==
    IF statErr
    THEN [ metadata |-> ZeroMetadata, err |-> "stat", records |-> records ]
    ELSE IF ~isDir
    THEN [ metadata |-> ZeroMetadata, err |-> "not a directory", records |-> records ]
    ELSE IF siaPath \notin DOMAIN records
    THEN [ metadata |-> NewSiaDirMetadata(now), err |-> Nil,
           records |-> records @@ (siaPath :> NewSiaDirMetadata(now)) ]
    ELSE [ metadata |-> records[siaPath], err |-> Nil, records |-> records ]

\* Reads the stored metadata of directory siaPath out of the records:
\* [metadata, err, records], records being the records afterwards (a missing
\* record is created unless the directory is empty and not the root).
managedDirectoryMetadata(records, siaPath, statErr, isDir, numFileInfos, now) ==
    IF statErr
    THEN [ metadata |-> ZeroMetadata, err |-> "stat", records |-> records ]
    ELSE IF ~isDir
    THEN [ metadata |-> ZeroMetadata, err |-> "not a directory", records |-> records ]
    ELSE IF siaPath \notin DOMAIN records
    THEN IF numFileInfos = 0 /\ ~IsRoot(siaPath)
         THEN [ metadata |-> ZeroMetadata, err |-> "not exist", records |-> records ]
         ELSE [ metadata |-> NewSiaDirMetadata(now), err |-> Nil,
                records |-> records @@ (siaPath :> NewSiaDirMetadata(now)) ]
    ELSE [ metadata |-> records[siaPath], err |-> Nil, records |-> records ]

-----------------------------------------------------------------------------
(* The bubbleUpdates coordinator *)

\* managedBubbleNeeded admitting a caller although a bubble is active
managedBubbleNeeded_admitActive(updates, siaPath) ==
    LET ok == siaPath \in DOMAIN updates
        m == IF ok THEN updates ELSE updates @@ (siaPath :> bubbleInit)
    IN  IF m[siaPath] = bubblePending
        THEN [ updates |-> m, needed |-> FALSE, err |-> Nil ]
        ELSE [ updates |-> [m EXCEPT ![siaPath] = bubbleActive],
               needed |-> TRUE, err |-> Nil ]

\* managedBubbleNeeded: [updates, needed, err]
managedBubbleNeeded(updates, siaPath) ==
    LET ok == siaPath \in DOMAIN updates
        status == IF ok THEN updates[siaPath] ELSE bubbleInit
        m == IF ok THEN updates ELSE updates @@ (siaPath :> bubbleInit)
    IN  CASE status = bubblePending ->
                [ updates |-> m, needed |-> FALSE, err |-> Nil ]
          [] status = bubbleActive ->
                [ updates |-> [m EXCEPT ![siaPath] = bubblePending],
                  needed |-> FALSE, err |-> Nil ]
          [] status = bubbleInit ->
                [ updates |-> [m EXCEPT ![siaPath] = bubbleActive],
                  needed |-> TRUE, err |-> Nil ]
          [] OTHER ->
                [ updates |-> m, needed |-> FALSE, err |-> "invalid bubble status" ]

\* delete(r.bubbleUpdates, siaPathStr)
Delete(updates, siaPath) == [ q \in DOMAIN updates \ {siaPath} |-> updates[q] ]

\* managedCompleteBubbleUpdate deleting an entry whose status is invalid
managedCompleteBubbleUpdate_deleteInvalid(updates, siaPath, saveErr) ==
    IF siaPath \notin DOMAIN updates
    THEN [ updates |-> updates, err |-> Nil, rerun |-> FALSE ]
    ELSE IF updates[siaPath] = bubblePending
    THEN [ updates |-> [updates EXCEPT ![siaPath] = bubbleInit],
           err |-> IF saveErr THEN "save" ELSE Nil, rerun |-> TRUE ]
    ELSE [ updates |-> [ q \in DOMAIN updates \ {siaPath} |-> updates[q] ],
           err |-> IF updates[siaPath] = bubbleActive
                   THEN (IF saveErr THEN "save" ELSE Nil)
                   ELSE "invalid bubble status",
           rerun |-> FALSE ]

\* managedCompleteBubbleUpdate without the deferred
\* `go r.threadedBubbleMetadata(siaPath)` of a pending entry
managedCompleteBubbleUpdate_noRerun(updates, siaPath, saveErr) ==
    IF siaPath \notin DOMAIN updates
    THEN [ updates |-> updates, err |-> Nil, rerun |-> FALSE ]
    ELSE IF updates[siaPath] = bubblePending
    THEN [ updates |-> [updates EXCEPT ![siaPath] = bubbleInit],
           err |-> IF saveErr THEN "save" ELSE Nil, rerun |-> FALSE ]
    ELSE [ updates |-> [ q \in DOMAIN updates \ {siaPath} |-> updates[q] ],
           err |-> IF saveErr THEN "save" ELSE Nil, rerun |-> FALSE ]

\* managedCompleteBubbleUpdate saving before it updates the map, and
\* returning the error of the save with the map as it was
managedCompleteBubbleUpdate_saveFirst(updates, siaPath, saveErr) ==
    IF siaPath \notin DOMAIN updates
    THEN [ updates |-> updates, err |-> Nil, rerun |-> FALSE ]
    ELSE IF saveErr
    THEN [ updates |-> updates, err |-> "save", rerun |-> FALSE ]
    ELSE IF updates[siaPath] = bubblePending
    THEN [ updates |-> [updates EXCEPT ![siaPath] = bubbleInit],
           err |-> Nil, rerun |-> TRUE ]
    ELSE [ updates |-> [ q \in DOMAIN updates \ {siaPath} |-> updates[q] ],
           err |-> Nil, rerun |-> FALSE ]

\* managedCompleteBubbleUpdate: [updates, err, rerun]; rerun says that the
\* deferred `go r.threadedBubbleMetadata(siaPath)` runs. saveErr is the
\* error of r.saveBubbleUpdates().
managedCompleteBubbleUpdate(updates, siaPath, saveErr) ==
    IF siaPath \notin DOMAIN updates
    THEN [ updates |-> updates, err |-> Nil, rerun |-> FALSE ]
    ELSE CASE updates[siaPath] = bubblePending ->
                 [ updates |-> [updates EXCEPT ![siaPath] = bubbleInit],
                   err |-> IF saveErr THEN "save" ELSE Nil, rerun |-> TRUE ]
           [] updates[siaPath] = bubbleActive ->
                 [ updates |-> Delete(updates, siaPath),
                   err |-> IF saveErr THEN "save" ELSE Nil, rerun |-> FALSE ]
           [] OTHER ->
                 [ updates |-> updates, err |-> "invalid bubble status",
                   rerun |-> FALSE ]

\* A send without the default case of the select
NonBlockingSend_noDefault(n) == n + 1

\* select { case ch <- struct{}{}: default: } on a channel holding n units
NonBlockingSend(n) == IF n < ChanCap THEN n + 1 ELSE n

-----------------------------------------------------------------------------
(* The state of the siafiles *)

\* What managedCalculateAndUpdateFileMetadata can find for a file: a healthy
\* file, one at the repair threshold, and one just below it with a stuck
\* chunk. LastHealthCheckTime is set by the probe itself.
FileState(h, n) ==
    [ Health |-> h, StuckHealth |-> IF n > 0 THEN RemoteRepairDownloadThreshold ELSE 0,
      NumStuckChunks |-> n, Redundancy |-> 3 - h, Size |-> 1, ModTime |-> 1 ]

FileStates ==
    { FileState(0, 0),
      FileState(RemoteRepairDownloadThreshold, 0),
      FileState(RemoteRepairDownloadThreshold - 1, 1) }

\* managedCalculateAndUpdateFileMetadata: the BubbledMetadata of a file in
\* state f probed at time now (sf.UpdateLastHealthCheckTime stamps it)
managedCalculateAndUpdateFileMetadata(f, now) ==
    [ Health |-> f.Health, LastHealthCheckTime |-> now, ModTime |-> f.ModTime,
      NumStuckChunks |-> f.NumStuckChunks, Redundancy |-> f.Redundancy,
      Size |-> f.Size, StuckHealth |-> f.StuckHealth ]

\* One fileinfo of directory siaPath resolved against the current state
Resolve(siaPath, fi, probeErr, dirErr, now) ==
    LET child == Join(siaPath, fi.base)
        isSiaFile == fi.ext = SiaFileExtension
        isSubDir == ~isSiaFile /\ fi.isDir
        dm == IF isSubDir
              THEN managedDirectoryMetadata(dirRecord, child, dirErr, TRUE,
                                            Len(ReadDir(child)), now)
              ELSE [ metadata |-> ZeroMetadata, err |-> Nil, records |-> dirRecord ]
    IN  [ isSiaFile |-> isSiaFile,
          isDir |-> fi.isDir,
          joinErr |-> FALSE,
          probeErr |-> probeErr,
          fileMetadata |-> IF isSiaFile /\ ~probeErr
                           THEN managedCalculateAndUpdateFileMetadata(fileState[child], now)
                           ELSE ZeroBubbledMetadata,
          dirErr |-> dm.err # Nil,
          dirMetadata |-> dm.metadata ]

FileInfos(siaPath, probeErr, dirErr, now) ==
    [ i \in 1..Len(ReadDir(siaPath)) |->
        Resolve(siaPath, ReadDir(siaPath)[i], probeErr, dirErr, now) ]

\* The subdirectories of siaPath
SubDirs(siaPath) ==
    { Join(siaPath, ReadDir(siaPath)[i].base) :
        i \in { j \in 1..Len(ReadDir(siaPath)) :
                   /\ ReadDir(siaPath)[j].ext # SiaFileExtension
                   /\ ReadDir(siaPath)[j].isDir } }

\* The records after a calculation of siaPath that read every subdirectory:
\* managedDirectoryMetadata has created the records that were missing
RecordsAfterRead(siaPath, now) ==
    LET made == { c \in SubDirs(siaPath) :
                    managedDirectoryMetadata(dirRecord, c, FALSE, TRUE,
                        Len(ReadDir(c)), now).records # dirRecord }
    IN  [ d \in DOMAIN dirRecord \cup made |->
            IF d \in made THEN NewSiaDirMetadata(now) ELSE dirRecord[d] ]

-----------------------------------------------------------------------------
(* The goroutines *)

\* A goroutine started with `go r.threadedBubbleMetadata(siaPath)`. origin
\* tells who started it: "ext" a caller outside the bubble, "rerun"
\* managedCompleteBubbleUpdate, "parent" the deferred function of the bubble
\* of a child. trace lists the steps managedBubbleMetadata has taken.
NewTask(siaPath, origin) ==
    [ path |-> siaPath, origin |-> origin, pc |-> "start",
      metadata |-> ZeroMetadata, err |-> Nil, trace |-> << >> ]

Spawn(bag, siaPath, origin) == bag (+) SetToBag({ NewTask(siaPath, origin) })

Exit(bag, t) == bag (-) SetToBag({t})

Goto(bag, t, t2) == (bag (-) SetToBag({t})) (+) SetToBag({t2})

Running == BagToSet(tasks)

\* The pcs between managedBubbleNeeded returning true and the return of
\* managedCompleteBubbleUpdate
Admitted == { "calc", "write", "complete" }

\* Any I/O operation may fail
MayFail == BOOLEAN

\* A calculation of siaPath by a goroutine of the given origin
CountCalc(h, siaPath, origin) ==
    IF siaPath \notin DOMAIN h THEN h
    ELSE [ h EXCEPT ![siaPath] =
             [ @ EXCEPT !.n = @ + 1,
                        !.fresh = IF origin = "rerun" THEN @ ELSE @ + 1 ] ]

\* A call of managedBubbleNeeded that returned false while invocation a was
\* between needed and complete
CountOverlap(h, siaPath, a) ==
    IF siaPath \notin DOMAIN h THEN h
    ELSE [ h EXCEPT ![siaPath] =
             IF a.origin = "rerun"
             THEN [ @ EXCEPT !.overlapRerun = TRUE ]
             ELSE [ @ EXCEPT !.overlapFirst = @ + 1 ] ]

\* No call is singled out
NoCall == [ op |-> "none" ]

\* The renter after construction: no bubble is known, every directory has
\* its record, the channels are empty
Start ==
    /\ bubbleUpdates = << >>
    /\ tasks = EmptyBag
    /\ clock = 1
    /\ dirRecord = [ d \in Dirs |-> NewSiaDirMetadata(1) ]
    /\ fileState \in [ Files -> FileStates ]
    /\ stopped = FALSE
    /\ repairNeeded = 0
    /\ stuckChunkFound = 0
    /\ faulted = FALSE
    /\ asked = {}
    /\ dirty = {}
    /\ stale = {}

Init ==
    /\ Start
    /\ requests = MaxRequests
    /\ calcs = << >>
    /\ call = NoCall

\* A caller outside the bubble starts `go r.threadedBubbleMetadata(siaPath)`
Bubble(siaPath) ==
    /\ requests > 0
    /\ requests' = requests - 1
    /\ tasks' = Spawn(tasks, siaPath, "ext")
    /\ dirty' = dirty \cup {siaPath}
    /\ asked' = asked \cup {siaPath}
    /\ UNCHANGED <<call, bubbleUpdates, dirRecord, fileState, stopped, repairNeeded,
                   stuckChunkFound, faulted, stale, calcs, clock>>

\* threadedBubbleMetadata up to the check of needed: r.tg.Add() refuses the
\* goroutine after Stop; managedBubbleNeeded admits it or sends it home.
\* (Add only reads the stop state and managedBubbleNeeded only the map, so
\* the two are taken in one step.)
StartBubble(t) ==
    /\ t.pc = "start"
    /\ LET r == managedBubbleNeeded(bubbleUpdates, t.path)
           active == { a \in Running : a.path = t.path /\ a.pc \in Admitted }
       IN  IF stopped
           THEN /\ tasks' = Exit(tasks, t)
                /\ UNCHANGED <<call, bubbleUpdates, calcs>>
           ELSE /\ bubbleUpdates' = r.updates
                /\ tasks' = IF r.err = Nil /\ r.needed
                            THEN Goto(tasks, t, [t EXCEPT !.pc = "calc"])
                            ELSE Exit(tasks, t)
                /\ calcs' = IF r.needed \/ active = {} THEN calcs
                            ELSE CountOverlap(calcs, t.path, CHOOSE a \in active : TRUE)
    /\ UNCHANGED <<call, dirRecord, fileState, stopped, repairNeeded, stuckChunkFound,
                   requests, faulted, dirty, stale, clock,
                   asked>>

\* What the trace keeps of a calculation that returned r
CalcSteps(r) ==
    (IF r.via = "shutdown" THEN <<"shutdown">> ELSE << >>)
    \o (IF r.err # Nil THEN <<"calc failed">> ELSE <<"calc">>)

\* managedBubbleMetadata: r.managedCalculateDirectoryMetadata(siaPath) and
\* the return on its error
Calculate(t) ==
    /\ t.pc = "calc"
    /\ \E readDirErr \in MayFail, dirErr \in MayFail, probeErr \in BOOLEAN :
         /\ ~(readDirErr /\ dirErr)
         /\ LET fileinfos == FileInfos(t.path, probeErr, dirErr, clock)
                stopFrom == IF stopped THEN 1 ELSE Len(fileinfos) + 1
                r == managedCalculateDirectoryMetadata(readDirErr, fileinfos,
                                                       stopFrom, clock)
                failed == r.err # Nil
            IN  /\ tasks' = Goto(tasks, t,
                      [t EXCEPT !.metadata = r.metadata,
                                !.err = IF failed
                                        THEN "could not calculate the metadata"
                                        ELSE Nil,
                                !.trace = @ \o CalcSteps(r),
                                !.pc = IF failed THEN "complete" ELSE "write"])
                /\ faulted' = (faulted \/ failed)
                /\ dirRecord' = IF failed \/ stopped THEN dirRecord
                                 ELSE RecordsAfterRead(t.path, clock)
    /\ dirty' = dirty \ {t.path}
    /\ stale' = stale \ {t.path}
    /\ calcs' = CountCalc(calcs, t.path, t.origin)
    /\ UNCHANGED <<call, bubbleUpdates, fileState, stopped, repairNeeded,
                   stuckChunkFound, requests, clock,
                   asked>>

\* The signals with > for >= in the condition of repairNeeded
SignalSteps_strict(siaPath, metadata) ==
    IF siaPath # << >> THEN << >>
    ELSE (IF metadata.AggregateHealth > RemoteRepairDownloadThreshold
          THEN <<"repairNeeded">> ELSE << >>)
         \o (IF metadata.NumStuckChunks > 0
             THEN <<"stuckChunkFound">> ELSE << >>)
         \o <<"signals">>

\* s has step name
Has(s, name) == \E i \in 1..Len(s) : s[i] = name

\* The sends managedBubbleMetadata attempts for metadata: at the root only,
\* "repairNeeded" and "stuckChunkFound" each under its condition
SignalSteps(siaPath, metadata) ==
    IF ~IsRoot(siaPath) THEN << >>
    ELSE (IF metadata.AggregateHealth >= RemoteRepairDownloadThreshold
          THEN <<"repairNeeded">> ELSE << >>)
         \o (IF metadata.NumStuckChunks > 0
             THEN <<"stuckChunkFound">> ELSE << >>)
         \o <<"signals">>

\* A failed update of the record returning at once, without the signals
AfterUpdate_return(siaPath, metadata, failed) ==
    IF failed THEN << >>
    ELSE IF siaPath # << >> THEN << >>
    ELSE (IF metadata.AggregateHealth >= RemoteRepairDownloadThreshold
          THEN <<"repairNeeded">> ELSE << >>)
         \o (IF metadata.NumStuckChunks > 0
             THEN <<"stuckChunkFound">> ELSE << >>)
         \o <<"signals">>

\* What follows the update of the record, which failed or not: the error is
\* kept in err and the signals are considered all the same
AfterUpdate(siaPath, metadata, failed) == SignalSteps(siaPath, metadata)

\* A channel holding n units after the steps of SignalSteps
AfterSignals(n, steps, name) ==
    IF Has(steps, name) THEN NonBlockingSend(n) ELSE n

\* The sends among steps that found their channel full: the default case
Dropped(steps) ==
    (IF Has(steps, "repairNeeded") /\ repairNeeded >= ChanCap
     THEN <<"repairNeeded dropped">> ELSE << >>)
    \o (IF Has(steps, "stuckChunkFound") /\ stuckChunkFound >= ChanCap
        THEN <<"stuckChunkFound dropped">> ELSE << >>)

\* managedBubbleMetadata leaving the record as it was when it reaches its
\* deferred function: siaDir.UpdateMetadata(metadata) has not taken effect
UpdateMetadata_notYet(t) ==
    /\ t.pc = "write"
    /\ \E openErr \in MayFail, updateErr \in MayFail :
         /\ ~(openErr /\ updateErr)
         /\ LET noRecord == t.path \notin DOMAIN dirRecord
                failed == openErr \/ updateErr \/ noRecord
                steps == AfterUpdate(t.path, t.metadata, failed)
            IN  /\ dirRecord' = dirRecord
                /\ stale' = IF failed \/ IsRoot(t.path) THEN stale
                            ELSE stale \cup { Dir(t.path) }
                /\ faulted' = (faulted \/ openErr \/ updateErr)
                /\ repairNeeded' = AfterSignals(repairNeeded, steps, "repairNeeded")
                /\ stuckChunkFound' =
                       AfterSignals(stuckChunkFound, steps, "stuckChunkFound")
                /\ tasks' = Goto(tasks, t,
                      [t EXCEPT !.err = IF openErr \/ noRecord
                                        THEN "could not open directory"
                                        ELSE IF updateErr
                                        THEN "could not update the metadata"
                                        ELSE Nil,
                                !.trace = Append(@, IF failed THEN "write failed"
                                                    ELSE "write")
                                          \o steps \o Dropped(steps),
                                !.pc = "complete"])
    /\ UNCHANGED <<call, bubbleUpdates, fileState, stopped, requests,
                   dirty, calcs, clock,
                   asked>>

\* managedBubbleMetadata from r.staticDirSet.Open(siaPath) to its return:
\* siaDir.UpdateMetadata(metadata), whose error is kept, and at the root the
\* two signals. (The sends touch only the channels, so the record and the
\* signals are taken in one step.)
UpdateMetadata(t) ==
    /\ t.pc = "write"
    /\ \E openErr \in MayFail, updateErr \in MayFail :
         /\ ~(openErr /\ updateErr)
         /\ LET noRecord == t.path \notin DOMAIN dirRecord
                failed == openErr \/ updateErr \/ noRecord
                steps == AfterUpdate(t.path, t.metadata, failed)
            IN  /\ dirRecord' = IF failed THEN dirRecord
                                 ELSE [dirRecord EXCEPT ![t.path] = t.metadata]
                /\ stale' = IF failed \/ IsRoot(t.path) THEN stale
                            ELSE stale \cup { Dir(t.path) }
                /\ faulted' = (faulted \/ openErr \/ updateErr)
                /\ repairNeeded' = AfterSignals(repairNeeded, steps, "repairNeeded")
                /\ stuckChunkFound' =
                       AfterSignals(stuckChunkFound, steps, "stuckChunkFound")
                /\ tasks' = Goto(tasks, t,
                      [t EXCEPT !.err = IF openErr \/ noRecord
                                        THEN "could not open directory"
                                        ELSE IF updateErr
                                        THEN "could not update the metadata"
                                        ELSE Nil,
                                !.trace = Append(@, IF failed THEN "write failed"
                                                    ELSE "write")
                                          \o steps \o Dropped(steps),
                                !.pc = "complete"])
    /\ UNCHANGED <<call, bubbleUpdates, fileState, stopped, requests,
                   dirty, calcs, clock,
                   asked>>

\* The deferred function going on to the parent at the root as well
SchedulesParent_atRoot(siaPath, completeErr) ==
    completeErr = Nil

\* Whether the deferred function of managedBubbleMetadata reaches
\* `go r.threadedBubbleMetadata(parentDir)`: not when
\* managedCompleteBubbleUpdate failed, and not at the root
SchedulesParent(siaPath, completeErr) ==
    completeErr = Nil /\ ~IsRoot(siaPath)

\* The deferred function of managedBubbleMetadata: managedCompleteBubbleUpdate
\* (which may start the bubble of siaPath again) and then the bubble of the
\* parent. (Starting a goroutine touches nothing a running one reads, so the
\* two are taken in one step.)
CompleteBubble(t) ==
    /\ t.pc = "complete"
    /\ \E saveErr \in MayFail :
         LET r == managedCompleteBubbleUpdate(bubbleUpdates, t.path, saveErr)
             again == IF r.rerun THEN Spawn(Exit(tasks, t), t.path, "rerun")
                      ELSE Exit(tasks, t)
             parent == SchedulesParent(t.path, r.err)
         IN  /\ bubbleUpdates' = r.updates
             /\ tasks' = IF parent THEN Spawn(again, Dir(t.path), "parent")
                         ELSE again
             /\ dirty' = dirty \cup (IF r.rerun THEN {t.path} ELSE {})
                               \cup (IF parent THEN {Dir(t.path)} ELSE {})
    /\ UNCHANGED <<call, dirRecord, fileState, stopped, repairNeeded, stuckChunkFound,
                   requests, faulted, stale, calcs, clock,
                   asked>>

\* r.tg.Stop(): the StopChan closes
Stop ==
    /\ ~stopped
    /\ stopped' = TRUE
    /\ UNCHANGED <<call, bubbleUpdates, tasks, dirRecord, fileState, repairNeeded,
                   stuckChunkFound, requests, faulted, dirty, stale,
                   calcs, clock,
                   asked>>

\* The repair loop takes the unit out of repairNeeded
ReceiveRepairNeeded ==
    /\ repairNeeded > 0
    /\ repairNeeded' = repairNeeded - 1
    /\ UNCHANGED <<call, bubbleUpdates, tasks, dirRecord, fileState, stopped,
                   stuckChunkFound, requests, faulted, dirty, stale,
                   calcs, clock,
                   asked>>

\* The stuck loop takes the unit out of stuckChunkFound
ReceiveStuckChunkFound ==
    /\ stuckChunkFound > 0
    /\ stuckChunkFound' = stuckChunkFound - 1
    /\ UNCHANGED <<call, bubbleUpdates, tasks, dirRecord, fileState, stopped,
                   repairNeeded, requests, faulted, dirty, stale,
                   calcs, clock,
                   asked>>

\* The health of a file changes (hosts go offline, a repair finishes)
FileChange(f) ==
    /\ \E s \in FileStates \ { fileState[f] } :
         fileState' = [fileState EXCEPT ![f] = s]
    /\ UNCHANGED <<call, bubbleUpdates, tasks, dirRecord, stopped, repairNeeded,
                   stuckChunkFound, requests, faulted, dirty, stale, calcs, clock,
                   asked>>

\* A step of goroutine t
Step(t) ==
    \/ StartBubble(t)
    \/ Calculate(t)
    \/ UpdateMetadata(t)
    \/ CompleteBubble(t)

Next ==
    \/ \E siaPath \in Dirs : Bubble(siaPath)
    \/ \E t \in Running : StartBubble(t)
    \/ \E t \in Running : Calculate(t)
    \/ \E t \in Running : UpdateMetadata(t)
    \/ \E t \in Running : CompleteBubble(t)
    \/ Stop
    \/ ReceiveRepairNeeded
    \/ ReceiveStuckChunkFound
    \/ \E f \in Files : FileChange(f)

Spec == Init /\ [][Next]_vars

\* Some goroutine is about to calculate: Calculate has no other guard
AtCalc == \E t \in Running : t.pc = "calc"

\* The Go scheduler runs every goroutine that can take a step. The weak
\* fairness of Calculate is written out, with AtCalc for its ENABLED
FairSpec ==
    /\ Spec
    /\ WF_vars(\E t \in Running :
                  StartBubble(t) \/ UpdateMetadata(t) \/ CompleteBubble(t))
    /\ ([]<>(~AtCalc) \/ []<><<\E t \in Running : Calculate(t)>>_vars)

\* The path whose calculations CoalesceSpec counts
CoalescePath == <<"a">>

\* Bubbles of one path only are requested from outside, and its
\* calculations are counted
InitCoalesce ==
    /\ Start
    /\ requests = MaxCoalesced
    /\ call = NoCall
    /\ calcs = [ p \in {CoalescePath} |->
                   [ n |-> 0, fresh |-> 0, overlapFirst |-> 0,
                     overlapRerun |-> FALSE ] ]

NextCoalesce ==
    \/ Bubble(CoalescePath)
    \/ \E t \in Running : StartBubble(t)
    \/ \E t \in Running : Calculate(t)
    \/ \E t \in Running : UpdateMetadata(t)
    \/ \E t \in Running : CompleteBubble(t)
    \/ Stop

CoalesceSpec == InitCoalesce /\ [][NextCoalesce]_vars

\* No goroutine is running or scheduled
Quiescent == tasks = EmptyBag

-----------------------------------------------------------------------------
(* Single calls of the calculator and of managedDirectoryMetadata *)

\* No bubble runs: the state a single call does not read
Idle ==
    /\ tasks = EmptyBag
    /\ fileState = [ f \in Files |-> FileState(0, 0) ]
    /\ stopped = FALSE
    /\ repairNeeded = 0
    /\ stuckChunkFound = 0
    /\ requests = 0
    /\ faulted = FALSE
    /\ asked = {}
    /\ dirty = {}
    /\ stale = {}
    /\ calcs = << >>

\* The times at which a call is made
CallTimes == {2, 4}

\* BubbledMetadata that probed siafiles return: a healthy file, one at the
\* repair threshold and a smaller one with a stuck chunk; the probes were
\* made before or after the calculation started
ProbedFiles ==
    { [ Health |-> 0, LastHealthCheckTime |-> 1, ModTime |-> 1,
        NumStuckChunks |-> 0, Redundancy |-> 3, Size |-> 1, StuckHealth |-> 0 ],
      [ Health |-> RemoteRepairDownloadThreshold, LastHealthCheckTime |-> 3,
        ModTime |-> 3, NumStuckChunks |-> 0, Redundancy |-> 1, Size |-> 2,
        StuckHealth |-> 0 ],
      [ Health |-> 1, LastHealthCheckTime |-> 3, ModTime |-> 1,
        NumStuckChunks |-> 1, Redundancy |-> 2, Size |-> 1,
        StuckHealth |-> RemoteRepairDownloadThreshold ] }

\* Metadata that the records of subdirectories hold: a record just made by
\* NewSiaDir, and two that calculations have written
StoredRecords ==
    { NewSiaDirMetadata(1),
      [ AggregateHealth |-> RemoteRepairDownloadThreshold, AggregateNumFiles |-> 2,
        AggregateSize |-> 3, Health |-> 0, LastHealthCheckTime |-> 1,
        MinRedundancy |-> 1, ModTime |-> 3, NumFiles |-> 0,
        NumStuckChunks |-> 2, NumSubDirs |-> 1, StuckHealth |-> 1 ],
      [ AggregateHealth |-> 1, AggregateNumFiles |-> 1, AggregateSize |-> 1,
        Health |-> 1, LastHealthCheckTime |-> 3, MinRedundancy |-> 2,
        ModTime |-> 1, NumFiles |-> 1, NumStuckChunks |-> 0,
        NumSubDirs |-> 0, StuckHealth |-> 0 ] }

\* A resolved fileinfo of each kind
SiaFileInfo(fileMetadata) ==
    [ isSiaFile |-> TRUE, isDir |-> FALSE, joinErr |-> FALSE, probeErr |-> FALSE,
      fileMetadata |-> fileMetadata, dirErr |-> FALSE, dirMetadata |-> ZeroMetadata ]

FailedSiaFileInfo ==
    [ isSiaFile |-> TRUE, isDir |-> FALSE, joinErr |-> FALSE, probeErr |-> TRUE,
      fileMetadata |-> ZeroBubbledMetadata, dirErr |-> FALSE,
      dirMetadata |-> ZeroMetadata ]

DirInfo(dirMetadata) ==
    [ isSiaFile |-> FALSE, isDir |-> TRUE, joinErr |-> FALSE, probeErr |-> FALSE,
      fileMetadata |-> ZeroBubbledMetadata, dirErr |-> FALSE,
      dirMetadata |-> dirMetadata ]

FailedDirInfo ==
    [ isSiaFile |-> FALSE, isDir |-> TRUE, joinErr |-> FALSE, probeErr |-> FALSE,
      fileMetadata |-> ZeroBubbledMetadata, dirErr |-> TRUE,
      dirMetadata |-> ZeroMetadata ]

OtherInfo ==
    [ isSiaFile |-> FALSE, isDir |-> FALSE, joinErr |-> FALSE, probeErr |-> FALSE,
      fileMetadata |-> ZeroBubbledMetadata, dirErr |-> FALSE,
      dirMetadata |-> ZeroMetadata ]

\* What ioutil.ReadDir can list, resolved
ResolvedInfos ==
    { SiaFileInfo(f) : f \in ProbedFiles } \cup { DirInfo(d) : d \in StoredRecords }
        \cup { FailedSiaFileInfo, FailedDirInfo, OtherInfo }

\* The directories a single calculation is run on
Listings == UNION { [ 1..n -> ResolvedInfos ] : n \in 0..MaxChildren }

\* The result of a call that has not returned
NoCalcResult == [ metadata |-> ZeroMetadata, err |-> Nil, via |-> "none" ]

NoReadResult == [ metadata |-> ZeroMetadata, err |-> "none" ]

\* A calculation of a listed directory, or a read of the stored metadata of
\* a directory that may have no record, is about to be made
InitCalculator ==
    /\ Idle
    /\ bubbleUpdates = << >>
    /\ clock \in CallTimes
    /\ \/ /\ dirRecord = [ d \in Dirs |-> NewSiaDirMetadata(1) ]
          /\ call \in [ op : {"calculate"}, fileinfos : Listings,
                         readDirErr : {FALSE}, stopFrom : {0},
                         result : {NoCalcResult} ]
       \/ /\ \E known \in SUBSET Dirs : dirRecord \in [ known -> StoredRecords ]
          /\ call \in [ op : {"read"}, siaPath : Dirs, numFileInfos : {0},
                         before : {<< >>}, result : {NoReadResult} ]

\* One call of managedCalculateDirectoryMetadata
CallCalculate ==
    /\ call.op = "calculate"
    /\ call.result.via = "none"
    /\ \E readDirErr \in BOOLEAN, stopFrom \in 1..(Len(call.fileinfos) + 1) :
         call' = [ call EXCEPT
                     !.readDirErr = readDirErr,
                     !.stopFrom = stopFrom,
                     !.result = managedCalculateDirectoryMetadata(readDirErr,
                                    call.fileinfos, stopFrom, clock) ]
    /\ UNCHANGED <<bubbleUpdates, tasks, dirRecord, fileState, stopped,
                   repairNeeded, stuckChunkFound, requests, faulted, asked,
                   dirty, stale, calcs, clock>>

\* One call of managedDirectoryMetadata on a directory that os.Stat finds,
\* holding numFileInfos entries
CallDirectoryMetadata ==
    /\ call.op = "read"
    /\ call.result.err = "none"
    /\ \E numFileInfos \in 0..1 :
         LET r == managedDirectoryMetadata(dirRecord, call.siaPath, FALSE, TRUE,
                                           numFileInfos, clock)
         IN  /\ dirRecord' = r.records
             /\ call' = [ call EXCEPT
                            !.numFileInfos = numFileInfos,
                            !.before = dirRecord,
                            !.result = [ metadata |-> r.metadata, err |-> r.err ] ]
    /\ UNCHANGED <<bubbleUpdates, tasks, fileState, stopped, repairNeeded,
                   stuckChunkFound, requests, faulted, asked, dirty, stale,
                   calcs, clock>>

NextCalculator == CallCalculate \/ CallDirectoryMetadata

CalculatorSpec == InitCalculator /\ [][NextCalculator]_vars

-----------------------------------------------------------------------------
(* The bubbles of siaPath between managedBubbleNeeded returning true and the *)
(* return of their managedCompleteBubbleUpdate *)
Active(siaPath) == { t \in Running : t.path = siaPath /\ t.pc \in Admitted }

\* The goroutines of the given origin scheduled for siaPath and not started
Scheduled(bag, siaPath, origin) ==
    CopiesIn(NewTask(siaPath, origin), bag)

-----------------------------------------------------------------------------
\* C1: for every path, in every state, at most one bubble is between
\* managedBubbleNeeded returning true and its managedCompleteBubbleUpdate.
C1_AtMostOneActive ==
    \A p \in Dirs :
        /\ Cardinality(Active(p)) <= 1
        /\ \A t \in Active(p) : CopiesIn(t, tasks) = 1

\* A bubble of a path is active and a second caller was turned away (the
\* entry is pending)
C1_Contended ==
    \E p \in Dirs :
        /\ Active(p) # {}
        /\ p \in DOMAIN bubbleUpdates /\ bubbleUpdates[p] = bubblePending

-----------------------------------------------------------------------------
\* A step in which managedCompleteBubbleUpdate found the entry of siaPath
\* pending, and one in which it found it active
CompletesPending(siaPath) ==
    /\ siaPath \in DOMAIN bubbleUpdates
    /\ bubbleUpdates[siaPath] = bubblePending
    /\ siaPath \in DOMAIN bubbleUpdates'
    /\ bubbleUpdates'[siaPath] = bubbleInit

CompletesActive(siaPath) ==
    /\ siaPath \in DOMAIN bubbleUpdates
    /\ bubbleUpdates[siaPath] = bubbleActive
    /\ siaPath \notin DOMAIN bubbleUpdates'

-----------------------------------------------------------------------------
\* C3 as claimed: once no goroutine is running or scheduled, bubbleUpdates
\* has no entry, whatever failed and whether or not the renter was stopped.
C3_NoEntryWhenQuiescent == Quiescent => bubbleUpdates = << >>

\* C3 as amended: once no goroutine is running or scheduled, bubbleUpdates
\* has no active and no pending entry, and it has no entry at all unless the
\* renter was stopped (a stopped renter refuses the bubble that
\* managedCompleteBubbleUpdate starts for a pending entry, which stays init).
C3_NoLeakUnlessStopped ==
    Quiescent =>
        /\ \A p \in DOMAIN bubbleUpdates : bubbleUpdates[p] = bubbleInit
        /\ ~stopped => bubbleUpdates = << >>

\* Every requested bubble has run, some I/O failed, nothing is left
C3_QuiescentAfterFailure ==
    /\ Quiescent
    /\ requests = 0
    /\ faulted
    /\ ~stopped
    /\ bubbleUpdates = << >>

-----------------------------------------------------------------------------
\* C4: the step in which an admitted bubble of a path other than the root
\* runs managedCompleteBubbleUpdate schedules exactly one bubble of the
\* parent, whatever failed, and that of a bubble of the root schedules none.
C4_ParentScheduledOnce ==
    [][\A p \in Dirs :
          (CompletesPending(p) \/ CompletesActive(p)) =>
              Scheduled(tasks', Dir(p), "parent")
                  = Scheduled(tasks, Dir(p), "parent")
                    + (IF IsRoot(p) THEN 0 ELSE 1)]_vars

-----------------------------------------------------------------------------
\* The directories above siaPath
Ancestors(siaPath) == { SubSeq(siaPath, 1, k) : k \in 0..(Len(siaPath) - 1) }

\* The record of siaPath is what a calculation without failures returns for
\* the records its subdirectories have now
Converged(siaPath) ==
    dirRecord[siaPath] =
        managedCalculateDirectoryMetadata(FALSE,
            FileInfos(siaPath, FALSE, FALSE, clock),
            Len(ReadDir(siaPath)) + 1, clock).metadata

\* Every request has been followed by a calculation, every record written
\* by a calculation of the parent, and the records above the requested
\* paths are the fold of the records below them
AllBubbledUp ==
    /\ dirty = {}
    /\ stale = {}
    /\ \A p \in asked : \A q \in Ancestors(p) : Converged(q)

\* C5: under fair scheduling, as long as no calculation and no write-back
\* fails and the renter is not stopped, a time comes when every request
\* for a path and every record written below a path has been followed by
\* the start of a calculation of the path; and once no goroutine is running
\* or scheduled, the record of every ancestor of a requested path is the
\* fold of its children's records.
C5_BubblesUpToRoot ==
    /\ []((Quiescent /\ ~faulted /\ ~stopped) => AllBubbledUp)
    /\ (dirty \cup stale # {})
          ~> (dirty \cup stale = {} \/ faulted \/ stopped)

-----------------------------------------------------------------------------
\* The stuck chunks of the children of a directory, each counted once
RECURSIVE SumStuckChunks(_)
SumStuckChunks(fileinfos) ==
    IF fileinfos = << >> THEN 0
    ELSE LET fi == Head(fileinfos)
             n == IF fi.isSiaFile
                  THEN (IF fi.probeErr THEN 0 ELSE fi.fileMetadata.NumStuckChunks)
                  ELSE IF fi.isDir THEN fi.dirMetadata.NumStuckChunks
                  ELSE 0
         IN  n + SumStuckChunks(Tail(fileinfos))

\* C6: the step in which a calculation succeeds (the renter not stopped)
\* leaves in metadata.NumStuckChunks the sum, each counted once, of the
\* stuck chunks of the files probed and of the records of the
\* subdirectories.
C6_StuckChunksCountedOnce ==
    [][\A t \in Running :
          (t.pc = "calc" /\ ~stopped) =>
              \A t2 \in BagToSet(tasks') :
                  (t2.path = t.path /\ t2.pc = "write") =>
                      \E probeErr \in BOOLEAN :
                          t2.metadata.NumStuckChunks =
                              SumStuckChunks(FileInfos(t.path, probeErr, FALSE,
                                                       clock))]_vars

-----------------------------------------------------------------------------
\* C7 as claimed: a bubble whose calculation failed has still attempted the
\* update of the record and, at the root, considered the signals when it
\* reaches its deferred completion.
C7_CalcErrorGoesOn ==
    \A t \in Running :
        (t.pc = "complete" /\ Has(t.trace, "calc failed")) =>
            /\ Has(t.trace, "write") \/ Has(t.trace, "write failed")
            /\ IsRoot(t.path) => Has(t.trace, "signals")

\* C7 as amended: an error of opening or updating the record is kept and
\* returned, and at the root the signals are considered all the same; an
\* error of the calculation is returned at once, with no update of the
\* record and no signal considered.
C7_UpdateErrorGoesOn ==
    \A t \in Running :
        t.pc = "complete" =>
            /\ Has(t.trace, "write failed") =>
                  /\ t.err \in { "could not open directory",
                                 "could not update the metadata" }
                  /\ IsRoot(t.path) => Has(t.trace, "signals")
            /\ Has(t.trace, "calc failed") =>
                  /\ t.err = "could not calculate the metadata"
                  /\ t.trace = <<"calc failed">>

\* A root bubble whose update of the record failed has sent repairNeeded
C7_SignalAfterFailedUpdate ==
    \E t \in Running :
        /\ t.pc = "complete"
        /\ IsRoot(t.path)
        /\ Has(t.trace, "write failed")
        /\ Has(t.trace, "repairNeeded")
        /\ t.err # Nil

-----------------------------------------------------------------------------
\* C8: a calculation that found the StopChan closed at the top of an
\* iteration has returned an error, and its bubble reaches the deferred
\* completion.
C8_ShutdownIsAnError ==
    \A t \in Running :
        Has(t.trace, "shutdown") => /\ t.err # Nil
                                    /\ t.pc = "complete"

-----------------------------------------------------------------------------
\* C9: a bubble that is past its signals has attempted the send on
\* repairNeeded iff it is a bubble of the root whose calculation returned
\* AggregateHealth >= RemoteRepairDownloadThreshold, and the send on
\* stuckChunkFound iff it is a bubble of the root whose calculation returned
\* NumStuckChunks > 0.
C9_SignalsIffConditions ==
    \A t \in Running :
        t.pc = "complete" =>
            /\ Has(t.trace, "repairNeeded") <=>
                  /\ IsRoot(t.path)
                  /\ Has(t.trace, "calc")
                  /\ t.metadata.AggregateHealth >= RemoteRepairDownloadThreshold
            /\ Has(t.trace, "stuckChunkFound") <=>
                  /\ IsRoot(t.path)
                  /\ Has(t.trace, "calc")
                  /\ t.metadata.NumStuckChunks > 0

\* A root bubble at the threshold exactly and without stuck chunks has sent
\* repairNeeded and not stuckChunkFound
C9_RepairOnly ==
    \E t \in Running :
        /\ t.pc = "complete"
        /\ IsRoot(t.path)
        /\ t.metadata.AggregateHealth = RemoteRepairDownloadThreshold
        /\ t.metadata.NumStuckChunks = 0
        /\ Has(t.trace, "repairNeeded")
        /\ ~Has(t.trace, "stuckChunkFound")

-----------------------------------------------------------------------------
\* C10: each channel holds at most one unit, and a bubble about to update
\* the record and signal can always take that step (the sends never block).
C10_ChannelsCoalesce ==
    /\ repairNeeded \in 0..ChanCap
    /\ stuckChunkFound \in 0..ChanCap
    /\ \A t \in Running : t.pc = "write" => ENABLED UpdateMetadata(t)

\* A root bubble found repairNeeded full, dropped its send and went on to
\* its deferred completion; the channel holds one unit
C10_DroppedSend ==
    /\ repairNeeded = ChanCap
    /\ \E t \in Running :
          /\ t.pc = "complete"
          /\ Has(t.trace, "repairNeeded dropped")

-----------------------------------------------------------------------------
(* Single calls of managedBubbleNeeded and managedCompleteBubbleUpdate *)

\* The values a bubbleStatus can hold: the four named ones and one more
BubbleStatuses == bubbleError..(bubblePending + 1)

\* A call of managedBubbleNeeded or of managedCompleteBubbleUpdate is about
\* to be made on a map holding any status for any directory
InitCoordinator ==
    /\ Idle
    /\ clock = 1
    /\ dirRecord = [ d \in Dirs |-> NewSiaDirMetadata(1) ]
    /\ \E known \in SUBSET Dirs : bubbleUpdates \in [ known -> BubbleStatuses ]
    /\ call \in [ op : {"needed", "complete"}, siaPath : Dirs, done : {FALSE},
                   before : {<< >>}, needed : {FALSE}, err : {Nil} ]

\* One call of managedBubbleNeeded
CallBubbleNeeded ==
    /\ call.op = "needed"
    /\ ~call.done
    /\ LET r == managedBubbleNeeded(bubbleUpdates, call.siaPath)
       IN  /\ bubbleUpdates' = r.updates
           /\ call' = [ call EXCEPT !.done = TRUE, !.before = bubbleUpdates,
                                    !.needed = r.needed, !.err = r.err ]
    /\ UNCHANGED <<tasks, dirRecord, fileState, stopped, repairNeeded,
                   stuckChunkFound, requests, faulted, asked, dirty, stale,
                   calcs, clock>>

\* One call of managedCompleteBubbleUpdate, with the goroutine it starts
CallCompleteBubbleUpdate ==
    /\ call.op = "complete"
    /\ ~call.done
    /\ \E saveErr \in MayFail :
         LET r == managedCompleteBubbleUpdate(bubbleUpdates, call.siaPath, saveErr)
         IN  /\ bubbleUpdates' = r.updates
             /\ tasks' = IF r.rerun THEN Spawn(tasks, call.siaPath, "rerun")
                         ELSE tasks
             /\ call' = [ call EXCEPT !.done = TRUE, !.before = bubbleUpdates,
                                      !.needed = saveErr, !.err = r.err ]
    /\ UNCHANGED <<dirRecord, fileState, stopped, repairNeeded,
                   stuckChunkFound, requests, faulted, asked, dirty, stale,
                   calcs, clock>>

NextCoordinator == CallBubbleNeeded \/ CallCompleteBubbleUpdate

CoordinatorSpec == InitCoordinator /\ [][NextCoordinator]_vars

-----------------------------------------------------------------------------
(* The calculation of a listed directory *)

\* The call was a calculation that ran to its last return statement
Calculated == call.op = "calculate" /\ call.result.via = "end"

\* The entries that were folded: the siafiles probed and the
\* subdirectories whose stored metadata was read
FoldedFiles(fileinfos) ==
    { i \in DOMAIN fileinfos :
        fileinfos[i].isSiaFile /\ ~fileinfos[i].joinErr /\ ~fileinfos[i].probeErr }

FoldedDirs(fileinfos) ==
    { i \in DOMAIN fileinfos :
        /\ ~fileinfos[i].isSiaFile
        /\ fileinfos[i].isDir
        /\ ~fileinfos[i].joinErr
        /\ ~fileinfos[i].dirErr }

\* C11: after a calculation that succeeded, AggregateHealth is at least the
\* AggregateHealth and the Health stored for every subdirectory, and at
\* least the Health of every siafile probed.
C11_AggregateHealthDominates ==
    Calculated =>
        /\ \A i \in FoldedDirs(call.fileinfos) :
              /\ call.result.metadata.AggregateHealth
                    >= call.fileinfos[i].dirMetadata.AggregateHealth
              /\ call.result.metadata.AggregateHealth
                    >= call.fileinfos[i].dirMetadata.Health
        /\ \A i \in FoldedFiles(call.fileinfos) :
              call.result.metadata.AggregateHealth
                  >= call.fileinfos[i].fileMetadata.Health

\* A directory with a healthy siafile and, after it, a subdirectory whose
\* record holds a worse AggregateHealth than Health has been calculated
C11_WorseBelow ==
    /\ Calculated
    /\ Len(call.fileinfos) >= 2
    /\ 1 \in FoldedFiles(call.fileinfos)
    /\ \E i \in FoldedDirs(call.fileinfos) :
          /\ call.fileinfos[i].dirMetadata.AggregateHealth
                > call.fileinfos[i].dirMetadata.Health
          /\ call.result.metadata.AggregateHealth
                = call.fileinfos[i].dirMetadata.AggregateHealth
          /\ call.result.metadata.AggregateHealth
                > call.fileinfos[1].fileMetadata.Health

-----------------------------------------------------------------------------
\* The listing in the order p, a permutation of its indices
Reordered(fileinfos, p) == [ i \in DOMAIN fileinfos |-> fileinfos[p[i]] ]

\* C12: a calculation that no shutdown interrupts returns the same metadata
\* and the same error for every order in which ReadDir lists the entries.
C12_OrderIndependent ==
    (call.op = "calculate" /\ call.result.via \in {"end", "subdir", "readdir"}) =>
        \A p \in Permutations(DOMAIN call.fileinfos) :
            LET r == managedCalculateDirectoryMetadata(call.readDirErr,
                         Reordered(call.fileinfos, p),
                         Len(call.fileinfos) + 1, clock)
            IN  /\ r.metadata = call.result.metadata
                /\ r.err = call.result.err

\* Three entries with different healths, the worst of them first, have
\* been folded
C12_WorstFirst ==
    /\ Calculated
    /\ Len(call.fileinfos) = 3
    /\ FoldedFiles(call.fileinfos) \cup FoldedDirs(call.fileinfos) = 1..3
    /\ 1 \in FoldedFiles(call.fileinfos)
    /\ call.fileinfos[1].fileMetadata.Health = call.result.metadata.AggregateHealth
    /\ call.fileinfos[1].fileMetadata.Health > 0
    /\ call.fileinfos[2] # call.fileinfos[1]
    /\ call.fileinfos[3] # call.fileinfos[2]
    /\ call.result.metadata.StuckHealth > call.fileinfos[3].fileMetadata.StuckHealth

-----------------------------------------------------------------------------
\* The call was a read of the stored metadata of a directory without record
ReadWithoutRecord ==
    /\ call.op = "read"
    /\ call.result.err # "none"
    /\ call.siaPath \notin DOMAIN call.before

-----------------------------------------------------------------------------
\* C14: the metadata a bubble writes to the record of its directory never
\* has MinRedundancy math.MaxFloat64 nor the zero ModTime, also when the
\* renter was stopped during the bubble.
C14_NoSentinelWritten ==
    [][\A t \in Running :
          ( /\ t.pc = "write"
            /\ CopiesIn(t, tasks') < CopiesIn(t, tasks)
            /\ dirRecord'[t.path] = t.metadata ) =>
              /\ dirRecord'[t.path].MinRedundancy # MaxFloat64
              /\ dirRecord'[t.path].ModTime # ZeroTime]_vars

-----------------------------------------------------------------------------
\* The entries that were folded, and the times each brought
Folded(fileinfos) == FoldedFiles(fileinfos) \cup FoldedDirs(fileinfos)

CheckTimeOf(fi) ==
    IF fi.isSiaFile THEN fi.fileMetadata.LastHealthCheckTime
    ELSE fi.dirMetadata.LastHealthCheckTime

ModTimeOf(fi) ==
    IF fi.isSiaFile THEN fi.fileMetadata.ModTime ELSE fi.dirMetadata.ModTime

\* The latest of a set of times that is not empty
Newest(times) == CHOOSE x \in times : \A y \in times : y <= x

\* LastHealthCheckTime is no later than that of any folded entry, and is
\* the time of the calculation when none was folded
OldestCheckTime ==
    /\ \A i \in Folded(call.fileinfos) :
          call.result.metadata.LastHealthCheckTime <= CheckTimeOf(call.fileinfos[i])
    /\ Folded(call.fileinfos) = {} =>
          call.result.metadata.LastHealthCheckTime = clock

-----------------------------------------------------------------------------
\* The sum of vals[i] over the indices i of S
RECURSIVE SumOver(_, _)
SumOver(vals, S) ==
    IF S = {} THEN 0
    ELSE LET i == CHOOSE j \in S : TRUE
         IN  vals[i] + SumOver(vals, S \ {i})

\* C16: after a calculation that succeeded, Health is the worst of
\* DefaultDirHealth and the Health of the siafiles probed (no subdirectory
\* raises it), NumFiles and NumSubDirs count the siafiles probed and the
\* subdirectories read, and AggregateNumFiles and AggregateSize add 1 and
\* the Size of each siafile to the AggregateNumFiles and AggregateSize
\* stored for each subdirectory.
C16_HealthOfFilesAndCounts ==
    Calculated =>
        LET fileinfos == call.fileinfos
            files == FoldedFiles(fileinfos)
            dirs == FoldedDirs(fileinfos)
            metadata == call.result.metadata
        IN  /\ metadata.Health =
                  Newest({DefaultDirHealth}
                         \cup { fileinfos[i].fileMetadata.Health : i \in files })
            /\ metadata.NumFiles = Cardinality(files)
            /\ metadata.NumSubDirs = Cardinality(dirs)
            /\ metadata.AggregateNumFiles =
                  Cardinality(files)
                  + SumOver([ i \in dirs |->
                                fileinfos[i].dirMetadata.AggregateNumFiles ], dirs)
            /\ metadata.AggregateSize =
                  SumOver([ i \in files |-> fileinfos[i].fileMetadata.Size ], files)
                  + SumOver([ i \in dirs |->
                                fileinfos[i].dirMetadata.AggregateSize ], dirs)

\* A siafile and a subdirectory in worse health than it, with files of its
\* own below, have been folded
C16_WorseSubDir ==
    /\ Calculated
    /\ FoldedFiles(call.fileinfos) # {}
    /\ \E i \in FoldedDirs(call.fileinfos) :
          /\ call.fileinfos[i].dirMetadata.AggregateHealth
                > call.result.metadata.Health
          /\ call.fileinfos[i].dirMetadata.AggregateNumFiles >= 2
    /\ call.result.metadata.AggregateNumFiles > call.result.metadata.NumFiles
    /\ call.result.metadata.NumSubDirs >= 1

-----------------------------------------------------------------------------
\* The listing without its entry i
Without(fileinfos, i) ==
    [ j \in 1..(Len(fileinfos) - 1) |->
        IF j < i THEN fileinfos[j] ELSE fileinfos[j + 1] ]

\* The call was a calculation that read the directory and that no shutdown
\* interrupted
CalculatedOrAborted ==
    /\ call.op = "calculate"
    /\ call.result.via # "none"
    /\ ~call.readDirErr
    /\ call.stopFrom = Len(call.fileinfos) + 1

\* The siafiles whose probe failed, and the subdirectories whose metadata
\* could not be read
FailedProbes(fileinfos) ==
    { i \in DOMAIN fileinfos : fileinfos[i].isSiaFile /\ fileinfos[i].probeErr }

FailedDirs(fileinfos) ==
    { i \in DOMAIN fileinfos :
        ~fileinfos[i].isSiaFile /\ fileinfos[i].isDir /\ fileinfos[i].dirErr }

\* C17: a siafile whose probe fails does not fail the calculation, and the
\* calculation returns what it returns for the directory without that entry.
C17_FailedProbeSkipped ==
    CalculatedOrAborted =>
        /\ FailedDirs(call.fileinfos) = {} => call.result.err = Nil
        /\ \A i \in FailedProbes(call.fileinfos) :
              LET r == managedCalculateDirectoryMetadata(FALSE,
                           Without(call.fileinfos, i),
                           Len(call.fileinfos), clock)
              IN  /\ r.metadata = call.result.metadata
                  /\ r.err = call.result.err

\* A siafile whose probe failed stood between two entries that were folded
C17_FailedBetween ==
    /\ Calculated
    /\ Len(call.fileinfos) = 3
    /\ FailedProbes(call.fileinfos) = {2}
    /\ FoldedFiles(call.fileinfos) = {1}
    /\ FoldedDirs(call.fileinfos) = {3}
    /\ call.result.metadata.NumFiles = 1

-----------------------------------------------------------------------------
\* C18: when the stored metadata of a subdirectory cannot be read, the
\* calculation returns that error and the zero metadata, however many
\* entries it folded before.
C18_FailedSubDirAborts ==
    (CalculatedOrAborted /\ FailedDirs(call.fileinfos) # {}) =>
        /\ call.result.err = "subdir"
        /\ call.result.metadata = ZeroMetadata

\* The subdirectory whose metadata could not be read came after two entries
\* that were folded
C18_FailedLast ==
    /\ CalculatedOrAborted
    /\ Len(call.fileinfos) = 3
    /\ FailedDirs(call.fileinfos) = {3}
    /\ Folded(call.fileinfos) = {1, 2}
    /\ call.fileinfos[1].fileMetadata.NumStuckChunks > 0
    /\ call.result.via = "subdir"

-----------------------------------------------------------------------------
\* The call found no entry for its path
AbsentBefore == call.siaPath \notin DOMAIN call.before

\* The call found the entry of its path with this status
StatusBefore(status) ==
    /\ ~AbsentBefore
    /\ call.before[call.siaPath] = status

\* The entries of the other paths are as they were
OthersUntouched ==
    /\ DOMAIN bubbleUpdates \ {call.siaPath} = DOMAIN call.before \ {call.siaPath}
    /\ \A q \in DOMAIN call.before \ {call.siaPath} :
          bubbleUpdates[q] = call.before[q]

\* C19: managedBubbleNeeded turns no entry or an init entry into an active
\* one and returns (true, nil); turns an active entry into a pending one and
\* returns (false, nil); leaves a pending entry and returns (false, nil);
\* leaves an entry of any other status and returns (false, error); and it
\* touches the entry of no other path.
C19_NeededTransitions ==
    (call.op = "needed" /\ call.done) =>
        /\ OthersUntouched
        /\ call.siaPath \in DOMAIN bubbleUpdates
        /\ CASE AbsentBefore \/ StatusBefore(bubbleInit) ->
                   /\ bubbleUpdates[call.siaPath] = bubbleActive
                   /\ call.needed
                   /\ call.err = Nil
             [] StatusBefore(bubbleActive) ->
                   /\ bubbleUpdates[call.siaPath] = bubblePending
                   /\ ~call.needed
                   /\ call.err = Nil
             [] StatusBefore(bubblePending) ->
                   /\ bubbleUpdates[call.siaPath] = bubblePending
                   /\ ~call.needed
                   /\ call.err = Nil
             [] OTHER ->
                   /\ bubbleUpdates[call.siaPath] = call.before[call.siaPath]
                   /\ ~call.needed
                   /\ call.err # Nil

\* managedBubbleNeeded found the entry of its path active while another
\* path had an entry of an invalid status, and made it pending
C19_ActiveAmongOthers ==
    /\ call.op = "needed"
    /\ call.done
    /\ StatusBefore(bubbleActive)
    /\ \E q \in DOMAIN call.before \ {call.siaPath} :
          call.before[q] = bubbleError
    /\ bubbleUpdates[call.siaPath] = bubblePending

-----------------------------------------------------------------------------
\* C20: managedCompleteBubbleUpdate deletes an active entry; turns a pending
\* entry into an init one and starts one goroutine of
\* threadedBubbleMetadata for the path; without an entry it changes
\* nothing, starts nothing and returns nil without saving; and on any other
\* status it returns an error, changes nothing and starts nothing.
C20_CompleteTransitions ==
    (call.op = "complete" /\ call.done) =>
        /\ OthersUntouched
        /\ CASE AbsentBefore ->
                   /\ bubbleUpdates = call.before
                   /\ tasks = EmptyBag
                   /\ call.err = Nil
             [] StatusBefore(bubbleActive) ->
                   /\ call.siaPath \notin DOMAIN bubbleUpdates
                   /\ tasks = EmptyBag
                   /\ call.err # "invalid bubble status"
             [] StatusBefore(bubblePending) ->
                   /\ call.siaPath \in DOMAIN bubbleUpdates
                   /\ bubbleUpdates[call.siaPath] = bubbleInit
                   /\ tasks = SetToBag({ NewTask(call.siaPath, "rerun") })
                   /\ call.err # "invalid bubble status"
             [] OTHER ->
                   /\ bubbleUpdates = call.before
                   /\ tasks = EmptyBag
                   /\ call.err = "invalid bubble status"

\* managedCompleteBubbleUpdate found the entry of its path pending while
\* other paths had entries, and started the bubble again
C20_PendingAmongOthers ==
    /\ call.op = "complete"
    /\ call.done
    /\ StatusBefore(bubblePending)
    /\ DOMAIN call.before # {call.siaPath}
    /\ Scheduled(tasks, call.siaPath, "rerun") = 1

-----------------------------------------------------------------------------
\* Step a comes before step b in the trace s
Before(s, a, b) ==
    \E i \in 1..Len(s) : \E j \in (i + 1)..Len(s) : s[i] = a /\ s[j] = b

\* The bubble t of a child of parentDir ends in this step
Completes(t, parentDir) ==
    /\ t.pc = "complete"
    /\ ~IsRoot(t.path)
    /\ Dir(t.path) = parentDir
    /\ CopiesIn(t, tasks') < CopiesIn(t, tasks)

\* C21: a bubble that has written the record of its path has calculated
\* before and has not completed yet; and a goroutine for the parent is
\* started only in the step in which the bubble of a child runs its
\* managedCompleteBubbleUpdate, which leaves the path's entry deleted or at
\* init, and if that bubble wrote the record, the record the parent's
\* calculation will find is the one it wrote.
C21_WriteBeforeParent ==
    [][/\ \A t \in Running :
             (Has(t.trace, "write") \/ Has(t.trace, "write failed")) =>
                 /\ t.pc = "complete"
                 /\ Before(t.trace, "calc", "write")
                    \/ Before(t.trace, "calc", "write failed")
       /\ \A parentDir \in Dirs :
             Scheduled(tasks', parentDir, "parent")
                 > Scheduled(tasks, parentDir, "parent") =>
                 \E t \in Running :
                     /\ Completes(t, parentDir)
                     /\ \/ t.path \notin DOMAIN bubbleUpdates'
                        \/ bubbleUpdates'[t.path] = bubbleInit
                     /\ Has(t.trace, "write") =>
                            /\ dirRecord[t.path] = t.metadata
                            /\ dirRecord'[t.path] = t.metadata]_vars

\* A bubble started by the bubble of a child has calculated on the record
\* the child's bubble wrote
C21_ParentReadsWritten ==
    \E t \in Running :
        /\ t.origin = "parent"
        /\ t.pc \in {"write", "complete"}
        /\ Has(t.trace, "calc")
        /\ ~stopped
        /\ ~faulted
        /\ \E c \in SubDirs(t.path) :
              /\ dirRecord[c] # NewSiaDirMetadata(1)
              /\ t.metadata.AggregateHealth >= dirRecord[c].AggregateHealth

-----------------------------------------------------------------------------
\* The statuses the protocol gives an entry
ValidStatuses == { bubbleInit, bubbleActive, bubblePending }

\* The bubble t calls managedBubbleNeeded in this step and is sent home
Refused(t) ==
    /\ t.pc = "start"
    /\ ~stopped
    /\ StartBubble(t)
    /\ ~managedBubbleNeeded(bubbleUpdates, t.path).needed

\* C22: from an empty map, no entry ever holds bubbleError or an unknown
\* status; managedBubbleNeeded returns no error whenever a bubble may call
\* it; every bubble between its admission and the return of its
\* managedCompleteBubbleUpdate finds the entry of its path active or
\* pending; and a bubble that managedBubbleNeeded sent home ends there,
\* with no calculation, no write of a record, no signal, no
\* managedCompleteBubbleUpdate and no goroutine started.
C22_NoProtocolViolation ==
    [][/\ \A p \in DOMAIN bubbleUpdates' : bubbleUpdates'[p] \in ValidStatuses
       /\ \A t \in Running :
             /\ (t.pc = "start" /\ ~stopped) =>
                    managedBubbleNeeded(bubbleUpdates, t.path).err = Nil
             /\ t.pc \in Admitted =>
                    /\ t.path \in DOMAIN bubbleUpdates
                    /\ bubbleUpdates[t.path] \in { bubbleActive, bubblePending }
             /\ Refused(t) =>
                    /\ t.trace = << >>
                    /\ tasks' = Exit(tasks, t)
                    /\ dirRecord' = dirRecord
                    /\ repairNeeded' = repairNeeded
                    /\ stuckChunkFound' = stuckChunkFound
                    /\ DOMAIN bubbleUpdates' = DOMAIN bubbleUpdates
                    /\ \A p \in DOMAIN bubbleUpdates :
                          bubbleUpdates'[p] # bubbleUpdates[p] =>
                              /\ p = t.path
                              /\ bubbleUpdates'[p] = bubblePending]_vars

\* A bubble was sent home while another of its path was admitted, which
\* now reaches its managedCompleteBubbleUpdate on a pending entry
C22_CompletesAfterRefusal ==
    \E t \in Running :
        /\ t.pc = "complete"
        /\ bubbleUpdates[t.path] = bubblePending
        /\ \A u \in Running : u.path = t.path => u = t
        /\ CopiesIn(t, tasks) = 1

-----------------------------------------------------------------------------
\* One more goroutine of the given origin is scheduled for siaPath after the
\* step than before it
Starts(siaPath, origin) ==
    Scheduled(tasks', siaPath, origin) > Scheduled(tasks, siaPath, origin)

\* C23: with fair scheduling and the bounded number of bubbles requested
\* from outside, from some point on no goroutine is running or scheduled
\* for ever; goroutines are started only by a request from outside or by
\* the deferred completion of an admitted bubble, which ends itself and
\* starts at most one bubble of its own path again and at most one of its
\* parent, and none of a parent at the root.
C23_EventuallyQuiescent ==
    /\ <>[]Quiescent
    /\ [][/\ BagCardinality(tasks') > BagCardinality(tasks) =>
                \/ requests' < requests
                \/ \E t \in Running : t.pc = "complete" /\ CompleteBubble(t)
          /\ \A t \in Running :
                (t.pc = "complete" /\ CompleteBubble(t)) =>
                    /\ BagCardinality(tasks') <= BagCardinality(tasks) + 1
                    /\ \A q \in Dirs :
                          /\ ~Starts(q, "ext")
                          /\ Starts(q, "rerun") =>
                                /\ q = t.path
                                /\ Scheduled(tasks', q, "rerun")
                                       = Scheduled(tasks, q, "rerun") + 1
                          /\ Starts(q, "parent") =>
                                /\ ~IsRoot(t.path)
                                /\ q = Dir(t.path)
                                /\ Scheduled(tasks', q, "parent")
                                       = Scheduled(tasks, q, "parent") + 1]_vars

\* Bubbles requested below the root only have carried a record up to the
\* root, and no goroutine is left
C23_QuietAfterPropagation ==
    /\ Quiescent
    /\ requests = 0
    /\ ~stopped
    /\ asked # {}
    /\ RootSiaPath \notin asked
    /\ dirRecord[RootSiaPath] # NewSiaDirMetadata(1)
    /\ bubbleUpdates = << >>

====
